---- MODULE Spec2Model ----
(***************************************************************************)
(* AskCarBuddy (src/app.py): the value parsers, the market position        *)
(* engine (get_market_comps), the safety risk scorer (get_nhtsa_data),     *)
(* the identity resolver and report pipeline (analyze_listing,             *)
(* generate_analysis_pipeline), the analyze endpoint (api_analyze), and   *)
(* the trace store from module load on (init_trace_db, save_trace,         *)
(* save_reward, save_page_event behind the reward and event endpoints).    *)
(*                                                                         *)
(* Python values are encoded as records of different shapes:               *)
(*   None -> [none |-> TRUE], an int n -> [int |-> n],                     *)
(*   a str -> [str |-> <<characters>>], a float -> [tenths |-> t] for the  *)
(*   value t/10, and float('inf') -> [inf |-> TRUE].                       *)
(* Scores with one decimal (risk_score and its terms) are kept in tenths   *)
(* of a point, so 2.5 is 25.                                               *)
(***************************************************************************)
EXTENDS Integers, Sequences, FiniteSets, TLC

VARIABLES
    nhtsa_resp,     \* what the two NHTSA queries return for this call
    nhtsa_result,   \* get_nhtsa_data's result, NoCall before the call
    comps_req,      \* get_market_comps arguments and the provider's answer
    comps_result,   \* get_market_comps's result, NoCall before the call
    comps_params,   \* the query get_market_comps sent, NoCall when none was sent
    parse_req,      \* a call of a value parser: which one, and its argument
    parse_res,      \* what the parser gave: for the argument, then for that result
    req,            \* the JSON body of the request to /api/analyze
    world,          \* what each provider returns for this listing
    pc,             \* the statement the request's handler is at
    vehicle,        \* analyze_listing's vehicle dictionary
    calls,          \* number of requests made to each provider so far
    result,         \* how analyze_listing ended, "running" until then
    market_data,    \* analyze_listing's market_data, NoCall before the call
    nhtsa_data,     \* analyze_listing's nhtsa_data, NoCall before the call
    research,       \* the three research futures of the pipeline
    sections,       \* the pipeline's sections dictionary and its futures
    gen_log,        \* per section, the requests made to the generation service
    overall,        \* generate_overall_score's result, NoCall before the call
    contexts,       \* per section, the context its generation call is given
    score_input,    \* the sections handed to generate_overall_score
    db_tables,      \* whether the trace database has its tables
    traces,         \* the rows inserted into the traces table
    response,       \* the HTTP status api_analyze answered with, 0 before
    load_pc,        \* the module-level statement the interpreter is at
    bound,          \* the module-level names bound so far
    db_lock,        \* the holder of _db_lock, Free when nobody holds it
    wreq,           \* per handler thread, the request it serves
    wpc,            \* per handler thread, the statement it is at
    rewards,        \* the rows inserted into the rewards table
    page_events     \* the rows inserted into the page_events table

fnVars == <<nhtsa_resp, nhtsa_result, comps_req, comps_result, comps_params,
           parse_req, parse_res>>
idVars == <<req, world, pc, vehicle, calls, result>>
runVars == <<market_data, nhtsa_data, research, sections, gen_log, overall,
            contexts, score_input>>
storeVars == <<load_pc, bound, db_lock, wreq, wpc, rewards, page_events>>
dbVars == <<db_tables, traces, response, storeVars>>
vars == <<fnVars, idVars, runVars, dbVars>>

----------------------------------------------------------------------------
(* Bounds of the model *)

MaxRecalls == 7
MaxComplaints == 501
MaxSevere == 5
MaxSevereLate == 1
MaxRecords == 3
MaxStrLen == 3
MaxWriters == 2

----------------------------------------------------------------------------
(* Python values *)

None == [none |-> TRUE]
IntV(n) == [int |-> n]
StrV(s) == [str |-> s]
IsNone(v) == "none" \in DOMAIN v
IsInt(v) == "int" \in DOMAIN v
IsStr(v) == "str" \in DOMAIN v
FloatV(t) == [tenths |-> t]
IsFloat(v) == "tenths" \in DOMAIN v
PosInf == [inf |-> TRUE]
NoCall == [nocall |-> TRUE]

\* An exception that leaves the function.
Raised == [raised |-> TRUE]

\* Python truthiness: None, 0 and "" are false.
Truthy(v) ==
    IF IsNone(v) THEN FALSE
    ELSE IF IsInt(v) THEN v.int # 0
    ELSE IF IsFloat(v) THEN v.tenths # 0
    ELSE IF IsStr(v) THEN Len(v.str) > 0
    ELSE TRUE

Min2(a, b) == IF a <= b THEN a ELSE b
Max2(a, b) == IF a >= b THEN a ELSE b

Digits == {"0", "1", "2", "3", "4", "5", "6", "7", "8", "9"}

DigitVal(c) ==
    CASE c = "0" -> 0 [] c = "1" -> 1 [] c = "2" -> 2 [] c = "3" -> 3
      [] c = "4" -> 4 [] c = "5" -> 5 [] c = "6" -> 6 [] c = "7" -> 7
      [] c = "8" -> 8 [] c = "9" -> 9

RECURSIVE KeepChars(_, _)
\* re.sub(r'[^...]', '', s): the characters of s that are in keep, in order.
KeepChars(s, keep) ==
    IF s = <<>> THEN <<>>
    ELSE IF Head(s) \in keep THEN <<Head(s)>> \o KeepChars(Tail(s), keep)
    ELSE KeepChars(Tail(s), keep)

RECURSIVE DecimalValue(_, _)
\* The value of a string of digits, most significant first.
DecimalValue(s, acc) ==
    IF s = <<>> THEN acc ELSE DecimalValue(Tail(s), acc * 10 + DigitVal(Head(s)))

RECURSIVE CountChar(_, _)
CountChar(s, c) ==
    IF s = <<>> THEN 0
    ELSE (IF Head(s) = c THEN 1 ELSE 0) + CountChar(Tail(s), c)

RECURSIVE BeforeDot(_)
BeforeDot(s) ==
    IF s = <<>> \/ Head(s) = "." THEN <<>> ELSE <<Head(s)>> \o BeforeDot(Tail(s))

\* int(val) if val > 0 else None, for an int or a float: int() cuts a float
\* towards zero and raises OverflowError for an infinite one.
ParseNumber(val) ==
    IF IsInt(val) THEN (IF val.int > 0 THEN IntV(val.int) ELSE None)
    ELSE IF IsFloat(val) THEN (IF val.tenths > 0 THEN IntV(val.tenths \div 10) ELSE None)
    ELSE Raised

IsNumber(val) == IsInt(val) \/ IsFloat(val) \/ val = PosInf

\* parse_price: None stays None; a number is cut to an int when positive; a
\* string is stripped to digits and dots and read as int(float(s)); float()
\* raises on an empty string, on a lone dot and on more than one dot.
parse_price(val) ==
    IF IsNone(val) THEN None
    ELSE IF IsNumber(val) THEN ParseNumber(val)
    ELSE LET s == KeepChars(val.str, Digits \cup {"."})
             dots == CountChar(s, ".")
             p == DecimalValue(BeforeDot(s), 0)
         IN  IF dots > 1 \/ Len(s) = dots THEN None
             ELSE IF p > 0 THEN IntV(p) ELSE None

\* parse_mileage: as parse_price, but only digits are kept and int(s) is read.
parse_mileage(val) ==
    IF IsNone(val) THEN None
    ELSE IF IsNumber(val) THEN ParseNumber(val)
    ELSE LET s == KeepChars(val.str, Digits)
             m == DecimalValue(s, 0)
         IN  IF s = <<>> THEN None
             ELSE IF m > 0 THEN IntV(m) ELSE None

\* Python's round() of the exact ratio num/den (num >= 0, den > 0): to the
\* nearest integer, a half to the even neighbour.
RoundHalfEven(num, den) ==
    LET q == num \div den
        r == num % den
    IN  IF 2 * r < den THEN q
        ELSE IF 2 * r > den THEN q + 1
        ELSE IF q % 2 = 0 THEN q ELSE q + 1

----------------------------------------------------------------------------
(* Calls of the value parsers *)

Parsers == {"parse_price", "parse_mileage"}

Parse(fn, val) == IF fn = "parse_price" THEN parse_price(val) ELSE parse_mileage(val)

\* The characters of the raw texts: a digit that counts, a zero, the decimal
\* point and a currency sign.
RawChars == {"1", "0", ".", "$"}

RawTexts ==
    {StrV(<<"$", "1", "2", ",", "5", "0", "0">>),
     StrV(<<"4", "5", ",", "0", "0", "0", " ", "m", "i">>)} \cup
    {StrV(t) : t \in UNION {[1..n -> RawChars] : n \in 0..MaxStrLen}}

\* Numbers as a JSON body carries them: 1e999 is read as float('inf').
RawNumbers ==
    {IntV(n) : n \in {-1, 0, 1, 12500}} \cup
    {FloatV(t) : t \in {-5, 0, 5, 10, 15, 125009}} \cup {PosInf}

RawValues == {None} \cup RawNumbers \cup RawTexts

\* A parser is called with a raw value.
ParseValue ==
    /\ parse_res = <<>>
    /\ parse_res' = <<Parse(parse_req.fn, parse_req.val)>>
    /\ UNCHANGED <<nhtsa_resp, nhtsa_result, comps_req, comps_result, comps_params,
                   parse_req>>
    /\ UNCHANGED <<idVars, runVars, dbVars>>

\* The value a parser returned is parsed again, as line 1589 does with the
\* price that lookup_vin_autodev has already parsed.
ParseAgain ==
    /\ Len(parse_res) = 1
    /\ parse_res[1] \notin {None, Raised}
    /\ parse_res' = Append(parse_res, Parse(parse_req.fn, parse_res[1]))
    /\ UNCHANGED <<nhtsa_resp, nhtsa_result, comps_req, comps_result, comps_params,
                   parse_req>>
    /\ UNCHANGED <<idVars, runVars, dbVars>>

----------------------------------------------------------------------------
(* get_nhtsa_data: recalls, complaints and the risk score *)

ComplaintWindow == 20

\* What the recalls query returns: ok = FALSE is a timeout, an exception or a
\* status other than 200; count is len(results).
RecallResponses == [ok : BOOLEAN, count : 0..MaxRecalls]

\* What the complaints query returns: count is len(results), severe the
\* number of complaints among the first ComplaintWindow whose summary holds a
\* severe keyword, and severe_late the number of such complaints after them.
\* Answers with a severe complaint after the window are taken at the
\* complaint counts of LateCounts.
LateCounts == {ComplaintWindow + 1, 51, MaxComplaints}

ComplaintResponses ==
    {r \in [ok : BOOLEAN, count : 0..MaxComplaints, severe : 0..MaxSevere,
            severe_late : 0..MaxSevereLate] :
        /\ r.severe <= Min2(r.count, ComplaintWindow)
        /\ r.severe_late <= Max2(0, r.count - ComplaintWindow)
        /\ (r.severe_late > 0 => r.count \in LateCounts)
        /\ (~r.ok => r.count = 0)}

\* A calibration slip: the two upper steps exchanged.
ComplaintPtsStepsSwapped(cc) ==
    IF cc <= 20 THEN 0
    ELSE IF cc <= 50 THEN 5
    ELSE IF cc <= 100 THEN 10
    ELSE IF cc <= 200 THEN 25
    ELSE IF cc <= 500 THEN 15
    ELSE 35

ComplaintPts(cc) ==
    IF cc <= 20 THEN 0
    ELSE IF cc <= 50 THEN 5
    ELSE IF cc <= 100 THEN 10
    ELSE IF cc <= 200 THEN 15
    ELSE IF cc <= 500 THEN 25
    ELSE 35

RecallPts(rc) ==
    IF rc <= 2 THEN 0
    ELSE IF rc <= 4 THEN 5
    ELSE IF rc <= 6 THEN 15
    ELSE 25

\* The cap of the severity term left out.
SeverityPtsUncapped(severe_count) == severe_count * 5

SeverityPts(severe_count) == Min2(20, severe_count * 5)

\* The clamp of deal_score (1..10) used for the risk score.
RiskScoreFloorOne(cc, rc, severe_count) ==
    Min2(100, Max2(10, ComplaintPts(cc) + RecallPts(rc) + SeverityPts(severe_count)))

\* round(min(10, max(0, raw)), 1): raw is a multiple of 0.5, which rounding
\* to one decimal leaves as it is.
RiskScore(cc, rc, severe_count) ==
    Min2(100, Max2(0, ComplaintPts(cc) + RecallPts(rc) + SeverityPts(severe_count)))

RiskLabel(risk_score) ==
    IF risk_score <= 15 THEN "Low Risk"
    ELSE IF risk_score <= 30 THEN "Below Average Risk"
    ELSE IF risk_score <= 50 THEN "Average"
    ELSE IF risk_score <= 70 THEN "Above Average Risk"
    ELSE "High Risk"

\* The result dictionary: a failed query leaves its count at the initial 0
\* and complaints_raw empty.
NhtsaData(recalls, complaints) ==
    LET rc == IF recalls.ok THEN recalls.count ELSE 0
        cc == IF complaints.ok THEN complaints.count ELSE 0
        severe_count == IF complaints.ok THEN complaints.severe ELSE 0
        score == RiskScore(cc, rc, severe_count)
    IN  [recall_count |-> rc,
         complaint_count |-> cc,
         severe_count |-> severe_count,
         severity_pts |-> SeverityPts(severe_count),
         risk_score |-> score,
         risk_label |-> RiskLabel(score)]

get_nhtsa_data ==
    /\ nhtsa_result = NoCall
    /\ nhtsa_result' = NhtsaData(nhtsa_resp.recalls, nhtsa_resp.complaints)
    /\ UNCHANGED <<nhtsa_resp, comps_req, comps_result, comps_params, parse_req,
                   parse_res>>
    /\ UNCHANGED <<idVars, runVars, dbVars>>

----------------------------------------------------------------------------
(* get_market_comps: statistics over the comparable listings *)

MinBucketSize == 500
MaxBuckets == 15

RECURSIVE Insert(_, _)
Insert(x, s) ==
    IF s = <<>> THEN <<x>>
    ELSE IF x <= Head(s) THEN <<x>> \o s
    ELSE <<Head(s)>> \o Insert(x, Tail(s))

RECURSIVE SortPrices(_)
\* prices.sort()
SortPrices(s) == IF s = <<>> THEN <<>> ELSE Insert(Head(s), SortPrices(Tail(s)))

RECURSIVE ValidPricesNotNone(_)
\* The test "if p is not None" in place of "if p".
ValidPricesNotNone(records) ==
    IF records = <<>> THEN <<>>
    ELSE LET p == parse_price(Head(records))
         IN  IF p # None THEN <<p.int>> \o ValidPricesNotNone(Tail(records))
             ELSE ValidPricesNotNone(Tail(records))

RECURSIVE ValidPrices(_)
\* The loop over records: a record counts when parse_price gives a value.
ValidPrices(records) ==
    IF records = <<>> THEN <<>>
    ELSE LET p == parse_price(Head(records))
         IN  IF Truthy(p) THEN <<p.int>> \o ValidPrices(Tail(records))
             ELSE ValidPrices(Tail(records))

RECURSIVE SumSeq(_)
SumSeq(s) == IF s = <<>> THEN 0 ELSE Head(s) + SumSeq(Tail(s))

\* sorted(prices)[len(prices) // 2] in place of statistics.median.
MedianUpperMiddle(prices) == prices[Len(prices) \div 2 + 1]

\* int(statistics.median(prices)) of a sorted list: the middle element, or
\* for an even count the mean of the two middle elements, cut to an integer.
MedianPrice(prices) ==
    LET n == Len(prices)
    IN  IF n % 2 = 1 THEN prices[(n + 1) \div 2]
        ELSE (prices[n \div 2] + prices[n \div 2 + 1]) \div 2

CountAtMost(prices, limit) == Cardinality({i \in 1..Len(prices) : prices[i] <= limit})

\* round(below / len(prices) * 100); the floating-point evaluation equals
\* the exact half-even rounding for every list of fewer than 40 prices.
Percentile(prices, listing_price) ==
    RoundHalfEven(CountAtMost(prices, listing_price) * 100, Len(prices))

\* The score taken from the percentile itself instead of its inverse.
DealScoreNotInverse(percentile) == Max2(1, Min2(10, RoundHalfEven(percentile, 10)))

\* max(1, min(10, round(10 - (percentile / 10))))
DealScore(percentile) == Max2(1, Min2(10, RoundHalfEven(100 - percentile, 10)))

RECURSIVE Buckets(_, _, _, _, _)
\* The while loop that builds price_buckets.
Buckets(prices, current, bucket_size, max_price, buckets) ==
    IF ~(current < max_price + bucket_size) THEN buckets
    ELSE LET count == Cardinality({i \in 1..Len(prices) :
                          current <= prices[i] /\ prices[i] < current + bucket_size})
             grown == Append(buckets, [min |-> current,
                                       max |-> current + bucket_size,
                                       count |-> count])
         IN  IF Len(grown) > MaxBuckets THEN grown
             ELSE Buckets(prices, current + bucket_size, bucket_size, max_price, grown)

\* The bucket width without its floor of 500.
PriceBucketsNoFloor(prices) ==
    LET min_price == prices[1]
        max_price == prices[Len(prices)]
        num_buckets == Min2(10, Max2(4, Len(prices) \div 2))
    IN  Buckets(prices, min_price, (max_price - min_price) \div num_buckets,
                max_price, <<>>)

\* The loop condition "current < max_price" in place of
\* "current < max_price + bucket_size".
PriceBucketsBelowMax(prices) ==
    LET min_price == prices[1]
        max_price == prices[Len(prices)]
        num_buckets == Min2(10, Max2(4, Len(prices) \div 2))
        bucket_size == Max2(MinBucketSize, (max_price - min_price) \div num_buckets)
    IN  Buckets(prices, min_price, bucket_size, max_price - bucket_size, <<>>)

PriceBuckets(prices) ==
    LET min_price == prices[1]
        max_price == prices[Len(prices)]
        num_buckets == Min2(10, Max2(4, Len(prices) \div 2))
        bucket_size == Max2(MinBucketSize, (max_price - min_price) \div num_buckets)
    IN  Buckets(prices, min_price, bucket_size, max_price, <<>>)

\* The first year of the provider query's year range.
MinYear == 1990
RecentYear == 2019

\* max(year - 1, 1990)
YearMin(year) == Max2(year - 1, MinYear)

\* The year range of the query that get_market_comps builds: NoCall without
\* an API key, no range for an unknown year; for a year that is a string,
\* year - 1 raises TypeError inside the function's try.
MarketParams(has_key, year) ==
    IF ~has_key THEN NoCall
    ELSE IF ~Truthy(year) THEN [year_min |-> None, year_max |-> None]
    ELSE IF IsStr(year) THEN Raised
    ELSE [year_min |-> IntV(YearMin(year.int)), year_max |-> IntV(year.int + 1)]

\* The body of get_market_comps. has_key is bool(AUTODEV_API_KEY); resp.ok =
\* FALSE is a status other than 200 or an exception of the request. A
\* listing price that is a string makes p <= listing_price raise, which the
\* function's except turns into None.
MarketComps(has_key, resp, listing_price) ==
    IF ~has_key \/ ~resp.ok THEN None
    ELSE LET prices == SortPrices(ValidPrices(resp.records))
         IN  IF prices = <<>> THEN None
             ELSE IF Truthy(listing_price) /\ IsStr(listing_price) THEN None
             ELSE LET known == Truthy(listing_price)
                      median_price == MedianPrice(prices)
                      percentile == IF known
                                    THEN IntV(Percentile(prices, listing_price.int))
                                    ELSE None
                  IN  [avg_price |-> SumSeq(prices) \div Len(prices),
                       median_price |-> median_price,
                       min_price |-> prices[1],
                       max_price |-> prices[Len(prices)],
                       percentile |-> percentile,
                       deal_score |-> IF known THEN IntV(DealScore(percentile.int))
                                      ELSE None,
                       savings |-> IF known THEN IntV(median_price - listing_price.int)
                                   ELSE None,
                       comp_count |-> Len(prices),
                       total_market |-> IF resp.total_count = None
                                        THEN Len(resp.records)
                                        ELSE resp.total_count.int,
                       price_buckets |-> PriceBuckets(prices),
                       prices_sample |-> prices]

\* The raw price of a comp record, as the provider sends it: missing, zero,
\* a fraction below one, or an amount.
CompPrices ==
    {None, IntV(0), FloatV(5), IntV(9295), IntV(10500), IntV(12100), IntV(13000)}

ExampleRecords ==
    <<IntV(12400), IntV(9295), IntV(14995), IntV(10500), IntV(13000), IntV(11200),
      IntV(12100)>>

\* Twenty comps, among which a listing price falls on every twentieth.
TwentyRecords == [i \in 1..20 |-> IntV(1000 * i)]

\* Twenty comps whose range is no multiple of the bucket width.
UnevenRecords == [TwentyRecords EXCEPT ![20] = IntV(20009)]

RecordLists ==
    {ExampleRecords, TwentyRecords, UnevenRecords} \cup
    UNION {[1..n -> CompPrices] : n \in 0..MaxRecords}

ListingPrices ==
    {None, IntV(0), IntV(1000), IntV(3000), IntV(5000), IntV(10500), IntV(13435),
     StrV(<<"c", "a", "l", "l">>)}

\* data.get("totalCount") of the provider's answer, when it sends one.
TotalCounts == {None, IntV(120)}

\* The year argument: unknown, a model year on either side of the floor
\* of the query, a recent one, and a text that int() did not convert.
ModelYears ==
    {None, IntV(1985), IntV(1989), IntV(1990), IntV(1991), IntV(RecentYear),
     StrV(<<"n", "/", "a">>)}

\* Every answer of the provider for a recent model year, and every year
\* argument for one answer.
CompsRequests ==
    [has_key : BOOLEAN,
     resp : [ok : BOOLEAN, records : RecordLists, total_count : TotalCounts],
     listing_price : ListingPrices,
     year : {IntV(RecentYear)}]
    \cup
    [has_key : BOOLEAN,
     resp : {[ok |-> TRUE, records |-> ExampleRecords, total_count |-> None]},
     listing_price : {None},
     year : ModelYears]

get_market_comps ==
    /\ comps_result = NoCall
    /\ comps_params' = MarketParams(comps_req.has_key, comps_req.year)
    /\ comps_result' = IF comps_params' = Raised THEN None
                       ELSE MarketComps(comps_req.has_key, comps_req.resp,
                                        comps_req.listing_price)
    /\ UNCHANGED <<nhtsa_resp, nhtsa_result, comps_req, parse_req, parse_res>>
    /\ UNCHANGED <<idVars, runVars, dbVars>>

----------------------------------------------------------------------------
(* analyze_listing: identity resolution *)

\* The fields of the vehicle dictionary that the model follows. A text field
\* holds "" when the key is missing and otherwise the name of the source its
\* value came from; price holds a Python value.
Fields == {"year", "make", "model", "vin", "trim", "price", "dealer_phone"}

NoInfo ==
    [year |-> "", make |-> "", model |-> "", vin |-> "", trim |-> "",
     price |-> None, dealer_phone |-> ""]

\* d.get(k) is truthy
Has(d, k) == IF k = "price" THEN Truthy(d[k]) ELSE d[k] # ""

\* for k, v in info.items(): if v and not vehicle.get(k): vehicle[k] = v
FillMissing(v, info, keys) ==
    [k \in Fields |-> IF k \in keys /\ Has(info, k) /\ ~Has(v, k) THEN info[k] ELSE v[k]]

\* The character class [A-HJ-NPR-Z0-9] of the two VIN patterns; the matched
\* text is upper-cased, and the model's URLs are in upper case.
HexChars ==
    {"0", "1", "2", "3", "4", "5", "6", "7", "8", "9", "A", "B", "C", "D", "E", "F"}

VinChars ==
    HexChars \cup {"G", "H", "J", "K", "L", "M", "N", "P", "R", "S", "T", "U", "V",
                   "W", "X", "Y", "Z"}

\* valid_year_chars = set('ABCDEFGHJKLMNPRSTVWXY123456789')
ValidYearChars == VinChars \ {"0", "U", "Z"}

VinLength == 17

RECURSIVE FirstVinRun(_, _)
\* re.search(r'[A-HJ-NPR-Z0-9]{17}', url): the first 17 characters of the
\* class in a row, <<>> when there are none.
FirstVinRun(url, run) ==
    IF Len(run) = VinLength THEN run
    ELSE IF url = <<>> THEN <<>>
    ELSE IF Head(url) \in VinChars THEN FirstVinRun(Tail(url), Append(run, Head(url)))
    ELSE FirstVinRun(Tail(url), <<>>)

\* extract_vin_from_url: the candidate is given up when its tenth character
\* is no model-year code or when all its characters are hexadecimal digits.
extract_vin_from_url(url) ==
    LET candidate == FirstVinRun(url, <<>>)
    IN  IF candidate = <<>> THEN None
        ELSE IF candidate[10] \notin ValidYearChars THEN None
        ELSE IF \A i \in 1..VinLength : candidate[i] \in HexChars THEN None
        ELSE StrV(candidate)

\* The VIN pattern of parse_listing_url matches at position i: a "/" or "=",
\* 17 characters of the class, then one of "/&?." or the end of the URL.
VinMatchAt(url, i) ==
    /\ url[i] \in {"/", "="}
    /\ i + VinLength <= Len(url)
    /\ \A j \in 1..VinLength : url[i + j] \in VinChars
    /\ (i + VinLength = Len(url) \/ url[i + VinLength + 1] \in {"/", "&", "?", "."})

\* info.get("vin") of parse_listing_url: group 1 of the first match.
parse_listing_url(url) ==
    LET starts == {i \in 1..Len(url) : VinMatchAt(url, i)}
    IN  IF starts = {} THEN None
        ELSE LET i == CHOOSE k \in starts : \A m \in starts : k <= m
             IN  StrV(SubSeq(url, i + 1, i + VinLength))

\* Steps 1 and 2: extract_vin_from_url, then extract_ymm_from_url.
UrlInspection(v, url_vin, url_ymm) ==
    LET with_vin == IF url_vin # "" THEN [v EXCEPT !["vin"] = url_vin] ELSE v
        ymm == IF url_ymm
               THEN [NoInfo EXCEPT !["year"] = "url", !["make"] = "url", !["model"] = "url"]
               ELSE NoInfo
    IN  FillMissing(with_vin, ymm, {"year", "make", "model"})

\* The caller's fields are copied whatever was derived before; of the ten
\* field names of the loop the model follows six.
CallerFields == {"year", "make", "model", "trim", "price", "vin"}

CallerOverwrites(v, input) ==
    [k \in Fields |-> IF k \in CallerFields /\ Has(input, k) THEN input[k] ELSE v[k]]

AutodevKeys == {"year", "make", "model", "trim", "price"}

\* VIN enrichment via Auto.dev: missing keys are filled, dealer_phone is set
\* whenever the lookup has one.
AutodevEnrich(v, vin_data) ==
    LET filled == FillMissing(v, vin_data, AutodevKeys)
    IN  IF Has(vin_data, "dealer_phone")
        THEN [filled EXCEPT !["dealer_phone"] = vin_data.dealer_phone]
        ELSE filled

\* vehicle["price"] = parse_price(vehicle["price"]) or vehicle["price"]
NormalizePrice(v) ==
    IF Truthy(v.price)
    THEN LET p == parse_price(v.price)
         IN  [v EXCEPT !["price"] = IF Truthy(p) THEN p ELSE v.price]
    ELSE v

Called(provider) == calls' = [calls EXCEPT ![provider] = @ + 1]

analyze_listing ==
    /\ pc = "analyze"
    /\ pc' = IF req.has_url THEN "url_inspect" ELSE "caller"
    /\ UNCHANGED <<fnVars, runVars, dbVars, req, world, vehicle, calls, result>>

UrlInspect ==
    /\ pc = "url_inspect"
    /\ vehicle' = UrlInspection(vehicle,
                                IF extract_vin_from_url(world.url.text) # None
                                THEN "url" ELSE "",
                                world.url.url_ymm)
    /\ pc' = "decode"
    /\ UNCHANGED <<fnVars, runVars, dbVars, req, world, calls, result>>

\* Step 3: with a VIN, nhtsa_vin_decode fills what is missing.
DecodeUrlVin ==
    /\ pc = "decode"
    /\ IF vehicle.vin # ""
       THEN /\ Called("vin_decode")
            /\ vehicle' = FillMissing(vehicle, world.url.decode, Fields)
       ELSE UNCHANGED <<vehicle, calls>>
    /\ pc' = "scrape"
    /\ UNCHANGED <<fnVars, runVars, dbVars, req, world, result>>

\* Step 4: scrape_listing_exa and extract_vehicle_from_text.
Scrape ==
    /\ pc = "scrape"
    /\ Called("scrape")
    /\ vehicle' = FillMissing(vehicle, world.url.page, Fields)
    /\ pc' = "decode_again"
    /\ UNCHANGED <<fnVars, runVars, dbVars, req, world, result>>

\* Step 5: a VIN but still no make: nhtsa_vin_decode once more.
DecodeAgain ==
    /\ pc = "decode_again"
    /\ IF vehicle.vin # "" /\ vehicle.make = ""
       THEN /\ Called("vin_decode")
            /\ vehicle' = FillMissing(vehicle, world.url.decode, Fields)
       ELSE UNCHANGED <<vehicle, calls>>
    /\ pc' = "parse_url"
    /\ UNCHANGED <<fnVars, runVars, dbVars, req, world, result>>

\* Step 6: parse_listing_url as a fallback.
ParseUrl ==
    /\ pc = "parse_url"
    /\ vehicle' = FillMissing(vehicle,
                              [NoInfo EXCEPT !["vin"] =
                                  IF parse_listing_url(world.url.text) # None
                                  THEN "url_fallback" ELSE ""],
                              {"vin"})
    /\ pc' = "caller"
    /\ UNCHANGED <<fnVars, runVars, dbVars, req, world, calls, result>>

\* The caller's fields, then the check that make and model are known.
CallerInput ==
    /\ pc = "caller"
    /\ vehicle' = CallerOverwrites(vehicle, req.input)
    /\ IF vehicle'.make = "" \/ vehicle'.model = ""
       THEN pc' = "returned" /\ result' = "identity_error"
       ELSE pc' = "autodev" /\ UNCHANGED result
    /\ UNCHANGED <<fnVars, runVars, dbVars, req, world, calls>>

VinLookup ==
    /\ pc = "autodev"
    /\ IF vehicle.vin # "" /\ world.lookup.has_key
       THEN /\ Called("autodev")
            /\ vehicle' = IF world.lookup.autodev = None THEN vehicle
                          ELSE AutodevEnrich(vehicle, world.lookup.autodev)
       ELSE UNCHANGED <<vehicle, calls>>
    /\ pc' = "normalize"
    /\ UNCHANGED <<fnVars, runVars, dbVars, req, world, result>>

NormalizeTypes ==
    /\ pc = "normalize"
    /\ vehicle' = NormalizePrice(vehicle)
    /\ pc' = "vin_specs"
    /\ UNCHANGED <<fnVars, runVars, dbVars, req, world, calls, result>>

\* STEP 1 of the analysis: decode_vin_nhtsa, whose trim fills a missing trim.
VinSpecs ==
    /\ pc = "vin_specs"
    /\ IF vehicle.vin # ""
       THEN /\ Called("vin_decode")
            /\ vehicle' = IF world.lookup.vin_decode = None THEN vehicle
                          ELSE FillMissing(vehicle, world.lookup.vin_decode, {"trim"})
       ELSE UNCHANGED <<vehicle, calls>>
    /\ pc' = "market"
    /\ UNCHANGED <<fnVars, runVars, dbVars, req, world, result>>

\* The providers' answers for one listing.
Ymm(src) == [NoInfo EXCEPT !["year"] = src, !["make"] = src, !["model"] = src]

\* nhtsa_vin_decode: {} on failure; Make without Model; year, make and model;
\* and those with a trim.
DecodeAnswers ==
    {NoInfo,
     [NoInfo EXCEPT !["make"] = "nhtsa"],
     Ymm("nhtsa"),
     [Ymm("nhtsa") EXCEPT !["trim"] = "nhtsa"]}

\* extract_vehicle_from_text of the scraped page; NoInfo is an empty page.
PageAnswers ==
    {NoInfo,
     [Ymm("page") EXCEPT !["price"] = IntV(13435)],
     [NoInfo EXCEPT !["vin"] = "page"],
     [Ymm("page") EXCEPT !["vin"] = "page", !["price"] = IntV(13435)]}

\* lookup_vin_autodev: None, or the first record of the lookup.
AutodevRecord ==
    [Ymm("autodev") EXCEPT !["trim"] = "autodev", !["price"] = IntV(12100),
                           !["dealer_phone"] = "autodev"]

AutodevAnswers == {None, AutodevRecord, [AutodevRecord EXCEPT !["dealer_phone"] = ""]}

\* decode_vin_nhtsa: None, or a record whose trim may be empty.
VinSpecAnswers == {None, [NoInfo EXCEPT !["trim"] = "vpic"]}

\* The part of a listing URL after the host: a VIN as a path segment or
\* after a hyphen, a 17-character hexadecimal identifier, a segment whose
\* tenth character is no model-year code, a segment with the letter O, and
\* no candidate at all.
ExampleVin ==
    <<"1", "H", "G", "C", "M", "8", "2", "6", "3", "3", "A", "0", "0", "4", "3", "5", "2">>

HexIdentifier ==
    <<"0", "1", "2", "3", "4", "5", "6", "7", "8", "9", "A", "B", "C", "D", "E", "F", "0">>

UrlTexts ==
    {<<"/">> \o ExampleVin \o <<"/">>,
     <<"-">> \o ExampleVin,
     <<"/">> \o HexIdentifier,
     <<"/">> \o [ExampleVin EXCEPT ![10] = "U"] \o <<"?">>,
     <<"/">> \o [ExampleVin EXCEPT ![13] = "O"],
     <<"/">>}

NoUrlWorld == [text |-> <<>>, url_ymm |-> FALSE, decode |-> NoInfo, page |-> NoInfo]

UrlWorlds ==
    [text : UrlTexts, url_ymm : BOOLEAN, decode : DecodeAnswers, page : PageAnswers]

LookupWorlds ==
    {w \in [has_key : BOOLEAN, autodev : AutodevAnswers, vin_decode : VinSpecAnswers] :
        ~w.has_key => w.autodev = None}

\* What a caller sends: year, make and model in the combinations that matter
\* to the identity check, and each other field present or not. The price is
\* a number, a formatted amount or a text that is no amount.
CallerYmm ==
    {NoInfo,
     [NoInfo EXCEPT !["make"] = "caller"],
     [NoInfo EXCEPT !["make"] = "caller", !["model"] = "caller"],
     Ymm("caller")}

CallerPrices ==
    {None, IntV(12500), StrV(<<"$", "1", "2", ",", "5", "0", "0">>),
     StrV(<<"c", "a", "l", "l">>)}

CallerInputs ==
    {[[[[y EXCEPT !["vin"] = vin] EXCEPT !["trim"] = extra]
            EXCEPT !["dealer_phone"] = extra] EXCEPT !["price"] = price] :
        y \in CallerYmm, vin \in {"", "caller"}, extra \in {"", "caller"},
        price \in CallerPrices}

NoCalls == [vin_decode |-> 0, scrape |-> 0, autodev |-> 0]

----------------------------------------------------------------------------
(* analyze_listing: market comps, safety data and the report pipeline *)

MaxTokens == 3000
ScoreMaxTokens == 500
NeutralScore == 50

SectionNames ==
    {"model_year_summary", "vehicle_history", "price_analysis", "owner_feedback",
     "dealer_questions"}

Topics == {"model_year", "owner", "dealer"}

\* What the generation service does with one request: a JSON object, a JSON
\* value that Python takes as false ({} or null), a JSON text that is
\* malformed or cut off, or no usable answer (a status other than 200, a
\* timeout, an exception).
GenResponses == {"ok", "empty", "malformed", "unavailable"}

\* json.loads(content) of a status-200 answer returns a value.
Parses(resp) == resp \in {"ok", "empty"}

\* A failed section leaves no entry at all.
SectionEntryOnlyOnSuccess(resp) == IF resp = "ok" THEN "payload" ELSE "idle"

\* The test "if result is not None" in place of "if result".
SectionEntryWheneverParsed(resp) == IF Parses(resp) THEN "payload" ELSE "error"

\* The entry the as_completed loop records for a finished future:
\* generate_section returns the parsed object, or None after any failure,
\* for which the loop records {"error": ...}.
SectionEntry(resp) == IF resp = "ok" THEN "payload" ELSE "error"

\* json.loads outside the try: a malformed answer raises.
OverallScoreParseOutsideTry(resp) ==
    IF Parses(resp) THEN [source |-> "generated"]
    ELSE IF resp = "malformed" THEN Raised
    ELSE [source |-> "default", score |-> NeutralScore, label |-> "Neutral"]

\* generate_overall_score: the parsed answer, or the neutral default.
OverallScore(resp) ==
    IF Parses(resp) THEN [source |-> "generated"]
    ELSE [source |-> "default", score |-> NeutralScore, label |-> "Neutral"]

\* analysis = {"overall_score": overall, **sections}, and the check
\* "if not analysis" of analyze_listing.
AnalysisOutcome(secs) ==
    LET keys == {"overall_score"} \cup
                {s \in SectionNames : secs[s] \in {"payload", "error"}}
    IN  IF keys = {} THEN "generation_error" ELSE "report"

\* The sections argument of generate_overall_score is the dictionary itself,
\* failure markers included; the prompt holds the first 6000 characters of
\* its JSON text.
ScoreInput(secs) == [s \in {n \in SectionNames : secs[n] \in {"payload", "error"}} |-> secs[s]]

\* vin_decode of analyze_listing: decode_vin_nhtsa's answer for a known VIN.
VinDecode(v, lookup) == IF v.vin # "" THEN lookup.vin_decode ELSE None

\* build_vehicle_identity: the card depends on the vehicle and on vin_decode.
IdentityCard(v, vd) == [kind |-> "identity", vehicle |-> v, vin_decode |-> vd]

\* f"...{research or '<no data sentence>'}" of the contexts s1 and s4.
ResearchBlock(t, r) ==
    [kind |-> "research", topic |-> t,
     text |-> IF r[t] = "found" THEN "evidence" ELSE "no evidence"]

\* s2_parts after the card: the NHTSA lines, or "No NHTSA data available."
NhtsaBlock(n) == IF n # None THEN [kind |-> "nhtsa", data |-> n] ELSE [kind |-> "no nhtsa"]

\* s3_parts after the card: the market lines with the car's price, or "No
\* market comparison data available within 50 miles."
MarketBlock(m, v) ==
    IF m # None THEN [kind |-> "market", data |-> m, price |-> v.price]
    ELSE [kind |-> "no market"]

\* s5_parts after the card: recalls when there are some, the price line with
\* market data, and the research text when there is one.
DealerParts(v, m, n, r) ==
    (IF n # None /\ n.recall_count > 0
     THEN <<[kind |-> "recalls", recall_count |-> n.recall_count]>> ELSE <<>>)
    \o (IF m # None
        THEN <<[kind |-> "price", price |-> v.price, median_price |-> m.median_price]>>
        ELSE <<>>)
    \o (IF r["dealer"] = "found"
        THEN <<[kind |-> "research", topic |-> "dealer", text |-> "evidence"]>>
        ELSE <<>>)

\* The history context with the market lines of the price context added.
SectionContextHistoryWithMarket(s, v, vd, m, n, r) ==
    CASE s = "model_year_summary" -> <<IdentityCard(v, vd), ResearchBlock("model_year", r)>>
      [] s = "vehicle_history" -> <<IdentityCard(v, vd), NhtsaBlock(n), MarketBlock(m, v)>>
      [] s = "price_analysis" -> <<IdentityCard(v, vd), MarketBlock(m, v)>>
      [] s = "owner_feedback" -> <<IdentityCard(v, vd), ResearchBlock("owner", r)>>
      [] s = "dealer_questions" -> <<IdentityCard(v, vd)>> \o DealerParts(v, m, n, r)

\* PHASE 2: the context of section s, as the sequence of its parts.
SectionContext(s, v, vd, m, n, r) ==
    CASE s = "model_year_summary" -> <<IdentityCard(v, vd), ResearchBlock("model_year", r)>>
      [] s = "vehicle_history" -> <<IdentityCard(v, vd), NhtsaBlock(n)>>
      [] s = "price_analysis" -> <<IdentityCard(v, vd), MarketBlock(m, v)>>
      [] s = "owner_feedback" -> <<IdentityCard(v, vd), ResearchBlock("owner", r)>>
      [] s = "dealer_questions" -> <<IdentityCard(v, vd)>> \o DealerParts(v, m, n, r)

\* build_vehicle_identity formats the price with a thousands separator,
\* which raises ValueError for a price that is a string.
IdentityCardRaises(v) == Truthy(v.price) /\ IsStr(v.price)

\* STEP 2: market comps.
MarketStep ==
    /\ pc = "market"
    /\ market_data' = MarketComps(world.lookup.has_key, world.market, vehicle.price)
    /\ pc' = "nhtsa"
    /\ UNCHANGED <<fnVars, dbVars, req, world, vehicle, calls, result>>
    /\ UNCHANGED <<nhtsa_data, research, sections, gen_log, overall, contexts, score_input>>

\* STEP 3: recalls and complaints, when the year is known.
NhtsaStep ==
    /\ pc = "nhtsa"
    /\ nhtsa_data' = IF vehicle.year # ""
                     THEN NhtsaData(world.nhtsa.recalls, world.nhtsa.complaints)
                     ELSE None
    /\ pc' = "pipeline"
    /\ UNCHANGED <<fnVars, dbVars, req, world, vehicle, calls, result>>
    /\ UNCHANGED <<market_data, research, sections, gen_log, overall, contexts, score_input>>

\* generate_analysis_pipeline begins: the identity card, then the three
\* research calls are submitted. An exception leaves analyze_listing.
StartPipeline ==
    /\ pc = "pipeline"
    /\ IF IdentityCardRaises(vehicle)
       THEN /\ pc' = "returned"
            /\ result' = "raised"
            /\ UNCHANGED research
       ELSE /\ pc' = "research"
            /\ research' = [t \in Topics |-> "running"]
            /\ UNCHANGED result
    /\ UNCHANGED <<fnVars, dbVars, req, world, vehicle, calls>>
    /\ UNCHANGED <<market_data, nhtsa_data, sections, gen_log, overall, contexts, score_input>>

\* One research call ends: evidence text, or None.
ResearchDone(t) ==
    /\ pc = "research"
    /\ research[t] = "running"
    /\ \E found \in {"found", "none"} : research' = [research EXCEPT ![t] = found]
    /\ UNCHANGED <<fnVars, dbVars, idVars>>
    /\ UNCHANGED <<market_data, nhtsa_data, sections, gen_log, overall, contexts, score_input>>

\* PHASE 2 and the start of PHASE 3: the contexts are built and the five
\* section calls are submitted.
SubmitSections ==
    /\ pc = "research"
    /\ \A t \in Topics : research[t] # "running"
    /\ contexts' = [s \in SectionNames |->
                        SectionContext(s, vehicle, VinDecode(vehicle, world.lookup),
                                       market_data, nhtsa_data, research)]
    /\ sections' = [s \in SectionNames |-> "running"]
    /\ pc' = "sections"
    /\ UNCHANGED <<fnVars, dbVars, req, world, vehicle, calls, result>>
    /\ UNCHANGED <<market_data, nhtsa_data, research, gen_log, overall, score_input>>

\* One section's future completes and the as_completed loop records it:
\* generate_section makes one request with max_tokens = MaxTokens.
SectionDone(s) ==
    /\ pc = "sections"
    /\ sections[s] = "running"
    /\ \E resp \in GenResponses :
           /\ gen_log' = [gen_log EXCEPT ![s] =
                             Append(@, [max_tokens |-> MaxTokens, response |-> resp])]
           /\ sections' = [sections EXCEPT ![s] = SectionEntry(resp)]
    /\ UNCHANGED <<fnVars, dbVars, idVars>>
    /\ UNCHANGED <<market_data, nhtsa_data, research, overall, contexts, score_input>>

\* PHASE 4 and PHASE 5: the overall score, the assembled analysis, and the
\* return of analyze_listing.
FinishPipeline ==
    /\ pc = "sections"
    /\ \A s \in SectionNames : sections[s] # "running"
    /\ score_input' = ScoreInput(sections)
    /\ \E resp \in GenResponses :
           /\ gen_log' = [gen_log EXCEPT !["overall_score"] =
                             Append(@, [max_tokens |-> ScoreMaxTokens, response |-> resp])]
           /\ overall' = OverallScore(resp)
    /\ result' = AnalysisOutcome(sections)
    /\ pc' = "returned"
    /\ UNCHANGED <<fnVars, dbVars, req, world, vehicle, calls>>
    /\ UNCHANGED <<market_data, nhtsa_data, research, sections, contexts>>

----------------------------------------------------------------------------
(* api_analyze and save_trace *)

\* save_trace: the INSERT raises when the traces table does not exist.
SaveTraceRaises == ~db_tables

\* uuid4 gives save_trace an id that no earlier row has.
NewTraceId == Len(traces) + 1

\* The row save_trace inserts.
TraceRow(id, outcome, v) ==
    [id |-> id,
     error |-> outcome # "report",
     make |-> IF outcome = "report" THEN v.make ELSE "",
     model |-> IF outcome = "report" THEN v.model ELSE ""]

\* A request with no JSON body, or an empty one, is answered at once.
api_analyze ==
    /\ pc = "recv"
    /\ IF req.empty
       THEN pc' = "done" /\ response' = 400
       ELSE pc' = "analyze" /\ UNCHANGED response
    /\ UNCHANGED <<fnVars, runVars, req, world, vehicle, calls, result>>
    /\ UNCHANGED <<db_tables, traces, storeVars>>

\* analyze_listing has returned or raised: the trace is saved inside a try
\* whose except swallows any failure, and the response is sent.
RespondWithTrace ==
    /\ pc = "returned"
    /\ traces' = IF SaveTraceRaises THEN traces
                 ELSE Append(traces, TraceRow(NewTraceId, result, vehicle))
    /\ response' = CASE result = "report" -> 200
                     [] result = "raised" -> 500
                     [] OTHER -> 400
    /\ pc' = "done"
    /\ UNCHANGED <<fnVars, runVars, req, world, vehicle, calls, result, db_tables>>
    /\ UNCHANGED storeVars

----------------------------------------------------------------------------
(* Module load and the trace store's writers: save_trace, save_reward and  *)
(* save_page_event behind /api/analyze, /api/reward and /api/event         *)

\* The module-level statements that concern the trace store, in the order
\* the interpreter executes them: the guarded init_trace_db() call comes
\* first, the def statements that bind the names come after it.
ModuleStatements ==
    <<[kind |-> "try_call", name |-> "init_trace_db"],
      [kind |-> "bind", name |-> "_db_lock"],
      [kind |-> "bind", name |-> "get_db"],
      [kind |-> "bind", name |-> "init_trace_db"],
      [kind |-> "bind", name |-> "save_trace"],
      [kind |-> "bind", name |-> "save_reward"],
      [kind |-> "bind", name |-> "save_page_event"]>>

StoreNames == {ModuleStatements[i].name : i \in 1..Len(ModuleStatements)}

Loaded == load_pc > Len(ModuleStatements)

\* One module-level statement runs. A call of a name that is not bound yet
\* raises NameError, which the except clause only logs; a call of
\* init_trace_db creates the tables that do not exist.
LoadStatement ==
    /\ ~Loaded
    /\ LET st == ModuleStatements[load_pc]
       IN  IF st.kind = "bind"
           THEN /\ bound' = bound \cup {st.name}
                /\ UNCHANGED db_tables
           ELSE /\ db_tables' = (db_tables \/ st.name \in bound)
                /\ UNCHANGED bound
    /\ load_pc' = load_pc + 1
    /\ UNCHANGED <<fnVars, idVars, runVars, traces, response>>
    /\ UNCHANGED <<db_lock, wreq, wpc, rewards, page_events>>

Free == 0
Writers == 1..MaxWriters

\* A trace id that a client can send: the id of the first trace, and an id
\* that save_trace never gave out.
KnownTraceId == 1
UnknownTraceId == 7

\* The JSON bodies of the three endpoints: trace_id is None when the key is
\* missing, type_ok says that signal_type is present and allowed (reward) or
\* that event_type is present (event).
StoreRequests ==
    {[route |-> "analyze", trace_id |-> None, type_ok |-> TRUE]} \cup
    {r \in [route : {"reward", "event"},
            trace_id : {None, IntV(KnownTraceId), IntV(UnknownTraceId)},
            type_ok : BOOLEAN] :
        ~r.type_ok => r.trace_id = IntV(KnownTraceId)}

NoRequest == [route |-> "none", trace_id |-> None, type_ok |-> FALSE]

\* api_reward and api_event answer 400 without a call of the store.
Rejected(r) == r.route # "analyze" /\ (r.trace_id = None \/ ~r.type_ok)

\* A request arrives at a handler thread once the module is loaded.
Receive(w) ==
    /\ Loaded
    /\ wpc[w] = "idle"
    /\ \E r \in StoreRequests :
           /\ wreq' = [wreq EXCEPT ![w] = r]
           /\ wpc' = [wpc EXCEPT ![w] = IF Rejected(r) THEN "rejected" ELSE "wait_lock"]
    /\ UNCHANGED <<fnVars, idVars, runVars, db_tables, traces, response>>
    /\ UNCHANGED <<load_pc, bound, db_lock, rewards, page_events>>

\* with _db_lock: the thread blocks until the lock is free.
CanAcquireUnlocked(w) == TRUE

CanAcquire(w) == db_lock = Free

Acquire(w) ==
    /\ wpc[w] = "wait_lock"
    /\ CanAcquire(w)
    /\ db_lock' = w
    /\ wpc' = [wpc EXCEPT ![w] = "locked"]
    /\ UNCHANGED <<fnVars, idVars, runVars, db_tables, traces, response>>
    /\ UNCHANGED <<load_pc, bound, wreq, rewards, page_events>>

\* conn = get_db()
Connect(w) ==
    /\ wpc[w] = "locked"
    /\ wpc' = [wpc EXCEPT ![w] = "connected"]
    /\ UNCHANGED <<fnVars, idVars, runVars, db_tables, traces, response>>
    /\ UNCHANGED <<load_pc, bound, db_lock, wreq, rewards, page_events>>

\* The lock's holder after the with block is left by an exception.
HolderAfterRaiseKept(w) == w

HolderAfterRaise(w) == Free

\* conn.execute(INSERT ...): raises when the table does not exist, and may
\* raise for other reasons (a locked or unwritable file); the with statement
\* then releases the lock while the exception leaves the function.
InsertRow(w) ==
    /\ wpc[w] = "connected"
    /\ \E fails \in BOOLEAN :
           /\ ~db_tables => fails
           /\ IF fails
              THEN /\ wpc' = [wpc EXCEPT ![w] = "raised"]
                   /\ db_lock' = HolderAfterRaise(w)
              ELSE /\ wpc' = [wpc EXCEPT ![w] = "inserted"]
                   /\ UNCHANGED db_lock
    /\ UNCHANGED <<fnVars, idVars, runVars, db_tables, traces, response>>
    /\ UNCHANGED <<load_pc, bound, wreq, rewards, page_events>>

\* The row save_reward and save_page_event insert: the trace_id as sent.
\* get_db does not switch on SQLite's foreign-key enforcement, so the
\* FOREIGN KEY clause of the schema rejects nothing.
SignalRow(r) == [trace_id |-> r.trace_id.int]

\* conn.commit(): the inserted row is in the table.
Commit(w) ==
    /\ wpc[w] = "inserted"
    /\ CASE wreq[w].route = "analyze" ->
                /\ traces' = Append(traces, TraceRow(NewTraceId, "report", vehicle))
                /\ UNCHANGED <<rewards, page_events>>
         [] wreq[w].route = "reward" ->
                /\ rewards' = Append(rewards, SignalRow(wreq[w]))
                /\ UNCHANGED <<traces, page_events>>
         [] OTHER ->
                /\ page_events' = Append(page_events, SignalRow(wreq[w]))
                /\ UNCHANGED <<traces, rewards>>
    /\ wpc' = [wpc EXCEPT ![w] = "committed"]
    /\ UNCHANGED <<fnVars, idVars, runVars, db_tables, response>>
    /\ UNCHANGED <<load_pc, bound, db_lock, wreq>>

\* conn.close() and the end of the with block.
Release(w) ==
    /\ wpc[w] = "committed"
    /\ db_lock' = Free
    /\ wpc' = [wpc EXCEPT ![w] = "done"]
    /\ UNCHANGED <<fnVars, idVars, runVars, db_tables, traces, response>>
    /\ UNCHANGED <<load_pc, bound, wreq, rewards, page_events>>

IdleStore ==
    /\ load_pc = Len(ModuleStatements) + 1
    /\ bound = StoreNames
    /\ db_lock = Free
    /\ wreq = [w \in Writers |-> NoRequest]
    /\ wpc = [w \in Writers |-> "idle"]
    /\ rewards = <<>>
    /\ page_events = <<>>

----------------------------------------------------------------------------
(* Specifications *)

NoMarketWorld == [ok |-> FALSE, records |-> <<>>, total_count |-> None]

NoNhtsaWorld ==
    [recalls |-> [ok |-> FALSE, count |-> 0],
     complaints |-> [ok |-> FALSE, count |-> 0, severe |-> 0, severe_late |-> 0]]

IdlePipeline ==
    /\ market_data = NoCall
    /\ nhtsa_data = NoCall
    /\ research = [t \in Topics |-> "idle"]
    /\ sections = [s \in SectionNames |-> "idle"]
    /\ gen_log = [s \in SectionNames \cup {"overall_score"} |-> <<>>]
    /\ overall = NoCall
    /\ contexts = [s \in SectionNames |-> <<>>]
    /\ score_input = NoCall

IdleRun ==
    /\ req = [empty |-> TRUE, has_url |-> FALSE, input |-> NoInfo]
    /\ world = [url |-> NoUrlWorld,
                lookup |-> [has_key |-> FALSE, autodev |-> None, vin_decode |-> None],
                market |-> NoMarketWorld, nhtsa |-> NoNhtsaWorld]
    /\ pc = "idle"
    /\ vehicle = NoInfo
    /\ calls = NoCalls
    /\ result = "running"
    /\ IdlePipeline
    /\ db_tables = FALSE
    /\ traces = <<>>
    /\ response = 0
    /\ IdleStore

IdleNhtsa ==
    /\ nhtsa_resp = [recalls |-> [ok |-> TRUE, count |-> 0],
                     complaints |-> [ok |-> TRUE, count |-> 0, severe |-> 0, severe_late |-> 0]]
    /\ nhtsa_result = NoCall

IdleParse ==
    /\ parse_req = [fn |-> "parse_price", val |-> None]
    /\ parse_res = <<>>

IdleComps ==
    /\ comps_req = [has_key |-> FALSE, resp |-> NoMarketWorld,
                    listing_price |-> None, year |-> None]
    /\ comps_result = NoCall
    /\ comps_params = NoCall

InitNhtsa ==
    /\ nhtsa_resp \in [recalls : RecallResponses, complaints : ComplaintResponses]
    /\ nhtsa_result = NoCall
    /\ IdleComps
    /\ IdleParse
    /\ IdleRun

NextNhtsa == get_nhtsa_data

SpecNhtsa == InitNhtsa /\ [][NextNhtsa]_vars

InitMarket ==
    /\ comps_req \in CompsRequests
    /\ comps_result = NoCall
    /\ comps_params = NoCall
    /\ IdleNhtsa
    /\ IdleParse
    /\ IdleRun

NextMarket == get_market_comps

SpecMarket == InitMarket /\ [][NextMarket]_vars

\* One call of a value parser, and a second call on what it returned.
InitParse ==
    /\ parse_req \in [fn : Parsers, val : RawValues]
    /\ parse_res = <<>>
    /\ IdleNhtsa
    /\ IdleComps
    /\ IdleRun

NextParse == ParseValue \/ ParseAgain

SpecParse == InitParse /\ [][NextParse]_vars

\* One run of analyze_listing up to the resolved identity.
InitIdentity ==
    /\ IdleNhtsa
    /\ IdleComps
    /\ IdleParse
    /\ req \in {r \in [empty : {FALSE}, has_url : BOOLEAN, input : CallerInputs] :
                    r.has_url \/ r.input # NoInfo}
    /\ world \in {w \in [url : UrlWorlds, lookup : LookupWorlds,
                           market : {NoMarketWorld}, nhtsa : {NoNhtsaWorld}] :
                      ~req.has_url => w.url = NoUrlWorld}
    /\ pc = "analyze"
    /\ vehicle = NoInfo
    /\ calls = NoCalls
    /\ result = "running"
    /\ IdlePipeline
    /\ db_tables = FALSE
    /\ traces = <<>>
    /\ response = 0
    /\ IdleStore

NextIdentity ==
    \/ analyze_listing
    \/ UrlInspect
    \/ DecodeUrlVin
    \/ Scrape
    \/ DecodeAgain
    \/ ParseUrl
    \/ CallerInput
    \/ VinLookup
    \/ NormalizeTypes
    \/ VinSpecs

SpecIdentity == InitIdentity /\ [][NextIdentity]_vars

\* One request to /api/analyze, from its arrival to the response. A database
\* file that an earlier deployment left has the tables; a fresh one has not,
\* because the init_trace_db() call at module load comes before the
\* function's definition, raises NameError and is only logged.
ApiInputs ==
    {NoInfo,
     [NoInfo EXCEPT !["vin"] = "caller"],
     [NoInfo EXCEPT !["make"] = "caller", !["model"] = "caller"],
     [Ymm("caller") EXCEPT !["price"] = IntV(13435)],
     [Ymm("caller") EXCEPT !["price"] = StrV(<<"c", "a", "l", "l">>)]}

ApiRequests ==
    {[empty |-> TRUE, has_url |-> FALSE, input |-> NoInfo]} \cup
    {r \in [empty : {FALSE}, has_url : BOOLEAN, input : ApiInputs] :
        r.has_url => r.input \in {NoInfo, [NoInfo EXCEPT !["vin"] = "caller"]}}

ApiUrlWorlds ==
    {[text |-> <<"/">> \o ExampleVin \o <<"/">>, url_ymm |-> FALSE,
      decode |-> Ymm("nhtsa"), page |-> [NoInfo EXCEPT !["price"] = IntV(13435)]],
     NoUrlWorld}

ApiLookupWorlds ==
    {[has_key |-> FALSE, autodev |-> None, vin_decode |-> None],
     [has_key |-> TRUE, autodev |-> AutodevRecord,
      vin_decode |-> [NoInfo EXCEPT !["trim"] = "vpic"]]}

ApiMarketWorlds ==
    {NoMarketWorld, [ok |-> TRUE, records |-> ExampleRecords, total_count |-> IntV(120)]}

ApiNhtsaWorlds ==
    {[recalls |-> [ok |-> TRUE, count |-> 3],
      complaints |-> [ok |-> TRUE, count |-> 60, severe |-> 1, severe_late |-> 0]]}

InitApi ==
    /\ IdleNhtsa
    /\ IdleComps
    /\ IdleParse
    /\ req \in ApiRequests
    /\ world \in {w \in [url : ApiUrlWorlds, lookup : ApiLookupWorlds,
                           market : ApiMarketWorlds, nhtsa : ApiNhtsaWorlds] :
                      /\ ~req.has_url => w.url = NoUrlWorld
                      /\ req.empty => /\ w.lookup.has_key = FALSE
                                      /\ w.market = NoMarketWorld}
    /\ pc = "recv"
    /\ vehicle = NoInfo
    /\ calls = NoCalls
    /\ result = "running"
    /\ IdlePipeline
    /\ db_tables \in BOOLEAN
    /\ traces = <<>>
    /\ response = 0
    /\ IdleStore

NextApi ==
    \/ api_analyze
    \/ NextIdentity
    \/ MarketStep
    \/ NhtsaStep
    \/ StartPipeline
    \/ \E t \in Topics : ResearchDone(t)
    \/ SubmitSections
    \/ \E s \in SectionNames : SectionDone(s)
    \/ FinishPipeline
    \/ RespondWithTrace

SpecApi == InitApi /\ [][NextApi]_vars

\* One run of analyze_listing from its call to its return: a listing URL, a
\* caller who names year, make, model and price, and a caller who names make
\* and model only; with and without the Auto.dev key.
PipelineRequests ==
    {[empty |-> FALSE, has_url |-> TRUE, input |-> NoInfo],
     [empty |-> FALSE, has_url |-> FALSE,
      input |-> [Ymm("caller") EXCEPT !["price"] = IntV(13435)]],
     [empty |-> FALSE, has_url |-> FALSE,
      input |-> [NoInfo EXCEPT !["make"] = "caller", !["model"] = "caller"]]}

InitPipeline ==
    /\ IdleNhtsa
    /\ IdleComps
    /\ IdleParse
    /\ req \in PipelineRequests
    /\ world \in {w \in [url : ApiUrlWorlds, lookup : ApiLookupWorlds,
                           market : ApiMarketWorlds, nhtsa : ApiNhtsaWorlds] :
                      /\ req.has_url <=> w.url # NoUrlWorld
                      /\ w.lookup.has_key <=> w.market.ok}
    /\ pc = "analyze"
    /\ vehicle = NoInfo
    /\ calls = NoCalls
    /\ result = "running"
    /\ IdlePipeline
    /\ db_tables = FALSE
    /\ traces = <<>>
    /\ response = 0
    /\ IdleStore

NextPipeline ==
    \/ NextIdentity
    \/ MarketStep
    \/ NhtsaStep
    \/ StartPipeline
    \/ \E t \in Topics : ResearchDone(t)
    \/ SubmitSections
    \/ \E s \in SectionNames : SectionDone(s)
    \/ FinishPipeline

SpecPipeline == InitPipeline /\ [][NextPipeline]_vars

\* The process from the start of the interpreter: the module is loaded on a
\* database file that is fresh or that an earlier deployment left with its
\* tables, then the handler threads serve requests to the three endpoints.
InitStore ==
    /\ IdleNhtsa
    /\ IdleComps
    /\ IdleParse
    /\ req = [empty |-> TRUE, has_url |-> FALSE, input |-> NoInfo]
    /\ world = [url |-> NoUrlWorld,
                lookup |-> [has_key |-> FALSE, autodev |-> None, vin_decode |-> None],
                market |-> NoMarketWorld, nhtsa |-> NoNhtsaWorld]
    /\ pc = "idle"
    /\ vehicle = NoInfo
    /\ calls = NoCalls
    /\ result = "running"
    /\ IdlePipeline
    /\ db_tables \in BOOLEAN
    /\ traces = <<>>
    /\ response = 0
    /\ load_pc = 1
    /\ bound = {}
    /\ db_lock = Free
    /\ wreq = [w \in Writers |-> NoRequest]
    /\ wpc = [w \in Writers |-> "idle"]
    /\ rewards = <<>>
    /\ page_events = <<>>

NextStore ==
    \/ LoadStatement
    \/ \E w \in Writers : Receive(w)
    \/ \E w \in Writers : Acquire(w)
    \/ \E w \in Writers : Connect(w)
    \/ \E w \in Writers : InsertRow(w)
    \/ \E w \in Writers : Commit(w)
    \/ \E w \in Writers : Release(w)

SpecStore == InitStore /\ [][NextStore]_vars

----------------------------------------------------------------------------
(* Market position: claim C7 *)

HasSnapshot == comps_result # NoCall /\ comps_result # None

HasPosition ==
    HasSnapshot /\ IsInt(comps_req.listing_price) /\ Truthy(comps_req.listing_price)

LowerMiddle(prices) == prices[(Len(prices) + 1) \div 2]
UpperMiddle(prices) == prices[Len(prices) \div 2 + 1]

\* u is the integer nearest to num/den, a half going to the even neighbour.
IsNearestEven(u, num, den) ==
    LET d == IF u * den >= num THEN u * den - num ELSE num - u * den
    IN  /\ 2 * d <= den
        /\ (2 * d = den => u % 2 = 0)

\* C7 as stated: for every non-empty list of valid comp prices and every
\* known listing price the median is the middle value of the sorted prices,
\* percentile = round(100 * count(price <= listing) / count(all)),
\* deal_score = clamp(1, 10, round(10 - percentile/10)) and savings =
\* median - listing.
C7_MedianIsMiddleValue ==
    HasPosition =>
        LET prices == comps_result.prices_sample
            listing == comps_req.listing_price.int
        IN  /\ comps_result.median_price \in {LowerMiddle(prices), UpperMiddle(prices)}
            /\ IsNearestEven(comps_result.percentile.int,
                             100 * CountAtMost(prices, listing), Len(prices))
            /\ comps_result.savings.int = comps_result.median_price - listing

\* C7 amended: the median is the middle element of the sorted prices for an
\* odd count and the mean of the two middle elements cut to an integer for an
\* even count; percentile is 100 * count(price <= listing) / count(all)
\* rounded to the nearest integer, halves to even; deal_score is
\* 10 - percentile/10 rounded the same way and clamped to 1..10; savings is
\* median - listing. For the comps of the worked example and listing 13435
\* the result is median 12100, percentile 86, deal_score 1, savings -1335.
C7_MarketStatistics ==
    HasPosition =>
        LET prices == comps_result.prices_sample
            n == Len(prices)
            listing == comps_req.listing_price.int
            median == comps_result.median_price
            pct == comps_result.percentile.int
            middles == LowerMiddle(prices) + UpperMiddle(prices)
        IN  /\ 2 * median <= middles
            /\ middles < 2 * median + 2
            /\ IsNearestEven(pct, 100 * CountAtMost(prices, listing), n)
            /\ \E u \in 0..10 :
                   /\ IsNearestEven(u, 100 - pct, 10)
                   /\ comps_result.deal_score.int = Max2(1, Min2(10, u))
            /\ comps_result.savings.int = median - listing
            /\ (comps_req.resp.records = ExampleRecords /\ listing = 13435
                    => /\ median = 12100
                       /\ pct = 86
                       /\ comps_result.deal_score.int = 1
                       /\ comps_result.savings.int = -1335)

\* An even number of comps whose two middle prices differ, with a listing price.
C7_Witness ==
    /\ HasPosition
    /\ comps_result.comp_count = 2
    /\ comps_result.min_price # comps_result.max_price

----------------------------------------------------------------------------
(* Safety risk score: claims C8, C9, C10 *)

NhtsaCalled == nhtsa_result # NoCall

\* C8: risk_score is non-decreasing in complaint_count with recall_count and
\* the severity of the complaint texts fixed, and non-decreasing in
\* recall_count with complaint_count fixed: no larger count scores lower than
\* the result of the call.
C8_RiskScoreMonotone ==
    NhtsaCalled =>
        LET cc == nhtsa_result.complaint_count
            rc == nhtsa_result.recall_count
            sev == nhtsa_result.severe_count
        IN  /\ \A cc2 \in cc..MaxComplaints :
                   RiskScore(cc2, rc, sev) >= nhtsa_result.risk_score
            /\ \A rc2 \in rc..MaxRecalls :
                   RiskScore(cc, rc2, sev) >= nhtsa_result.risk_score

C8_Witness ==
    /\ NhtsaCalled
    /\ nhtsa_result.complaint_count = 200
    /\ nhtsa_result.recall_count = 4
    /\ nhtsa_result.severe_count = 1

\* C9: with zero recalls and zero complaints the risk score is 0.0 and the
\* label is the lowest category, Low Risk.
C9_ZeroCountsLowRisk ==
    (NhtsaCalled /\ nhtsa_result.recall_count = 0 /\ nhtsa_result.complaint_count = 0)
        => /\ nhtsa_result.risk_score = 0
           /\ nhtsa_result.risk_label = "Low Risk"

C9_Witness ==
    /\ NhtsaCalled
    /\ nhtsa_resp.recalls.ok /\ nhtsa_resp.recalls.count = 0
    /\ nhtsa_resp.complaints.ok /\ nhtsa_resp.complaints.count = 0

LabelRank(label) ==
    CASE label = "Low Risk" -> 1
      [] label = "Below Average Risk" -> 2
      [] label = "Average" -> 3
      [] label = "Above Average Risk" -> 4
      [] label = "High Risk" -> 5

\* C10: the risk score lies within [0, 10], its severity term is at most 2,
\* and the label is a non-decreasing function of the score over the ordered
\* labels: no higher score carries a lower label than the result's, no lower
\* score a higher one.
C10_RiskScoreBounded ==
    NhtsaCalled =>
        /\ nhtsa_result.risk_score \in 0..100
        /\ nhtsa_result.severity_pts \in 0..20
        /\ \A s2 \in 0..100 :
               /\ (s2 >= nhtsa_result.risk_score
                       => LabelRank(RiskLabel(s2)) >= LabelRank(nhtsa_result.risk_label))
               /\ (s2 <= nhtsa_result.risk_score
                       => LabelRank(RiskLabel(s2)) <= LabelRank(nhtsa_result.risk_label))

\* The severity cap is engaged and the highest label is reached.
C10_Witness ==
    /\ NhtsaCalled
    /\ nhtsa_result.severe_count = 5
    /\ nhtsa_result.risk_label = "High Risk"

----------------------------------------------------------------------------
(* Identity resolution: claims C1, C2 *)

\* analyze_listing has passed the identity check and every stage that writes
\* the vehicle dictionary.
IdentityResolved ==
    /\ result # "identity_error"
    /\ pc \notin {"idle", "recv", "analyze", "url_inspect", "decode", "scrape",
                  "decode_again", "parse_url", "caller", "autodev", "normalize",
                  "vin_specs"}

\* The caller's value of a field after the normalisation of types.
CallerValue(k) == NormalizePrice(req.input)[k]

\* C1: a caller-supplied field is never overwritten by a derived source: every
\* identity field the caller supplies, dealer phone included, has the
\* caller's value (up to numeric normalisation) in the resolved identity.
C1_CallerFieldsKept ==
    IdentityResolved =>
        \A k \in Fields : Has(req.input, k) => vehicle[k] = CallerValue(k)

\* The market-data VIN lookup would supply make and model for this listing.
LookupIdentifies ==
    /\ world.lookup.has_key
    /\ world.lookup.autodev # None
    /\ world.lookup.autodev.make # ""
    /\ world.lookup.autodev.model # ""

\* C2: the identity-resolution error is returned only when make or model is
\* absent after all stages, the market-data VIN lookup included: a run with a
\* known VIN for which the lookup would supply make and model never ends in
\* that error.
C2_LookupPrecedesIdentityError ==
    result = "identity_error" => ~(vehicle.vin # "" /\ LookupIdentifies)

----------------------------------------------------------------------------
(* The analyze endpoint and the pipeline: claims C3, C4, C5, C6 *)

Responded == pc = "done"

\* C3: a trace is created for every invocation of the analyze endpoint: once
\* analyze_listing has returned or raised, exactly one row has been inserted
\* in the traces table by the time the response is sent. (The early return
\* for an empty body, which runs no analysis, inserts no row either.)
C3_OneTracePerInvocation == (Responded /\ result # "running") => Len(traces) = 1

SectionsFinished ==
    /\ pc \in {"returned", "done"}
    /\ \A s \in SectionNames : gen_log[s] # <<>>

\* The generation call of section s failed.
GenFailed(s) == gen_log[s][Len(gen_log[s])].response # "ok"

FailedSections == {s \in SectionNames : GenFailed(s)}

\* C4: when exactly one of the five section calls fails and the other four
\* succeed, the pipeline returns a report with the four payloads, a failure
\* marker for the failed section and an overall score.
C4_OneFailureKeepsSiblings ==
    (SectionsFinished /\ Cardinality(FailedSections) = 1) =>
        /\ result = "report"
        /\ overall # NoCall
        /\ \A s \in SectionNames :
               sections[s] = IF GenFailed(s) THEN "error" ELSE "payload"

C4_Witness ==
    /\ SectionsFinished
    /\ FailedSections = {"price_analysis"}
    /\ result = "report"

\* C5: when the generation service fails for all five sections the report is
\* rejected: analyze_listing returns an error and no report.
C5_TotalFailureRejected ==
    (SectionsFinished /\ FailedSections = SectionNames) => result # "report"

\* C6: a malformed or truncated result is retried exactly once with a larger
\* output budget: a section whose first answer was malformed has had a second
\* request with more max_tokens than the first by the time it is recorded.
C6_MalformedRetriedOnce ==
    \A s \in SectionNames :
        (sections[s] \in {"payload", "error"} /\ gen_log[s][1].response = "malformed")
            => /\ Len(gen_log[s]) = 2
               /\ gen_log[s][2].max_tokens > gen_log[s][1].max_tokens

----------------------------------------------------------------------------
(* The value parsers: claim C11 *)

\* The raw values the specification calls unparsable: a text that is empty,
\* has no digit or, for a price (the one parser that keeps the decimal
\* point), has several decimal points, and a number that is zero or negative.
Unparsable(fn, val) ==
    IF IsStr(val)
    THEN \/ KeepChars(val.str, Digits) = <<>>
         \/ fn = "parse_price" /\ CountChar(val.str, ".") > 1
    ELSE IF IsInt(val) THEN val.int <= 0
    ELSE IF IsFloat(val) THEN val.tenths <= 0
    ELSE FALSE

\* C11: parse_price and parse_mileage never raise; a value they return is a
\* strictly positive integer that parses to itself; and an unparsable
\* argument gives None.
C11_ParsersIdempotent ==
    Len(parse_res) >= 1 =>
        /\ parse_res[1] # Raised
        /\ IsInt(parse_res[1]) => parse_res[1].int > 0
        /\ Len(parse_res) = 2 => parse_res[2] = parse_res[1]
        /\ Unparsable(parse_req.fn, parse_req.val) => parse_res[1] = None

----------------------------------------------------------------------------
(* The section contexts: claims C12, C13 *)

ContextsBuilt == pc \in {"sections", "returned", "done"} /\ sections["price_analysis"] # "idle"

\* The sections that consume each research topic.
TopicConsumer(t) ==
    CASE t = "model_year" -> "model_year_summary"
      [] t = "owner" -> "owner_feedback"
      [] t = "dealer" -> "dealer_questions"

HasNoEvidenceMarker(context) ==
    \E i \in 1..Len(context) :
        context[i].kind = "research" /\ context[i].text = "no evidence"

\* C12: when the research of a topic gave nothing, the context of the section
\* that consumes the topic holds an explicit "no evidence" marker; this
\* includes dealer_questions when the buying-tips research is empty.
C12_EmptyResearchIsMarked ==
    ContextsBuilt =>
        \A t \in Topics :
            research[t] = "none" => HasNoEvidenceMarker(contexts[TopicConsumer(t)])

\* Other market snapshots, safety profiles and research outcomes a run could
\* have had.
OtherMarkets ==
    {None,
     MarketComps(TRUE, [ok |-> TRUE, records |-> ExampleRecords,
                        total_count |-> IntV(120)], IntV(13435)),
     MarketComps(TRUE, [ok |-> TRUE, records |-> <<IntV(9295), IntV(10500)>>,
                        total_count |-> None], None)}

OtherProfiles ==
    {None,
     NhtsaData([ok |-> TRUE, count |-> 0], [ok |-> TRUE, count |-> 0, severe |-> 0, severe_late |-> 0]),
     NhtsaData([ok |-> TRUE, count |-> 7], [ok |-> TRUE, count |-> 501, severe |-> 4, severe_late |-> 0])}

OtherResearch == [Topics -> {"found", "none"}]

\* C13: the vehicle_history context is the same whatever the market data and
\* the research had been, and the price_analysis context is the same whatever
\* the safety data and the research had been.
C13_SectionContextsIsolated ==
    ContextsBuilt =>
        LET vd == VinDecode(vehicle, world.lookup)
        IN  /\ \A m \in OtherMarkets, r \in OtherResearch :
                   contexts["vehicle_history"] =
                       SectionContext("vehicle_history", vehicle, vd, m, nhtsa_data, r)
            /\ \A n \in OtherProfiles, r \in OtherResearch :
                   contexts["price_analysis"] =
                       SectionContext("price_analysis", vehicle, vd, market_data, n, r)

\* Contexts built in a run that had market data, safety data and research.
C13_Witness ==
    /\ ContextsBuilt
    /\ market_data \notin {None, NoCall}
    /\ nhtsa_data \notin {None, NoCall}
    /\ \A t \in Topics : research[t] = "found"
    /\ Len(contexts["vehicle_history"]) = 2
    /\ contexts["vehicle_history"][2].kind = "nhtsa"
    /\ contexts["price_analysis"][2].kind = "market"

----------------------------------------------------------------------------
(* Market position: claims C14, C15 *)

\* C14: a snapshot's percentile lies in 0..100 and its deal_score, the one of
\* that percentile, in 1..10; with the half-to-even rounding of the code no
\* percentile of 0..100 above it has a greater deal_score and none below it a
\* smaller one; and a dearer listing among the same comps has no smaller
\* percentile and no greater deal_score.
C14_DealScoreMonotone ==
    HasPosition =>
        LET percentile == comps_result.percentile.int
            deal_score == comps_result.deal_score.int
        IN  /\ percentile \in 0..100
            /\ deal_score \in 1..10
            /\ deal_score = DealScore(percentile)
            /\ \A q \in 0..100 :
                   /\ DealScore(q) \in 1..10
                   /\ q >= percentile => DealScore(q) <= deal_score
                   /\ q <= percentile => DealScore(q) >= deal_score
            /\ \A dearer \in {l \in ListingPrices : IsInt(l)} :
                   dearer.int >= comps_req.listing_price.int =>
                       LET above == Percentile(comps_result.prices_sample, dearer.int)
                       IN  /\ above >= percentile
                           /\ DealScore(above) <= deal_score

\* A listing at the 15th percentile, where 10 - 1.5 = 8.5 is rounded to 8.
C14_Witness ==
    /\ HasPosition
    /\ comps_result.percentile.int = 15
    /\ comps_result.deal_score.int = 8

\* A raw price whose parsed value is strictly positive.
PositivePrice(raw) ==
    \/ IsInt(raw) /\ raw.int > 0
    \/ IsFloat(raw) /\ raw.tenths >= 10

\* The statistics of a snapshot that are computed from the comps.
CompStatistics ==
    {"avg_price", "median_price", "min_price", "max_price", "percentile", "deal_score",
     "savings", "comp_count", "price_buckets", "prices_sample"}

\* C15: percentile, deal_score and savings are present only with a valid comp
\* and a known listing price; comps whose price is absent or not positive
\* take part in no statistic computed from the comps (total_market is the
\* provider's count of the supply); and with no valid comp the snapshot is
\* absent.
C15_OnlyValidCompsCount ==
    comps_result # NoCall =>
        LET valid == SelectSeq(comps_req.resp.records, PositivePrice)
            alone == MarketComps(comps_req.has_key,
                                 [comps_req.resp EXCEPT !.records = valid],
                                 comps_req.listing_price)
        IN  /\ valid = <<>> => comps_result = None
            /\ comps_result # None =>
                   /\ comps_result.comp_count = Len(valid)
                   /\ \A f \in CompStatistics : comps_result[f] = alone[f]
                   /\ \A f \in {"percentile", "deal_score", "savings"} :
                          comps_result[f] # None =>
                              /\ valid # <<>>
                              /\ Truthy(comps_req.listing_price)

\* A snapshot with a position, from an answer that held comps without a
\* usable price next to a valid one.
C15_Witness ==
    /\ HasPosition
    /\ comps_result.comp_count = 1
    /\ Len(comps_req.resp.records) = 3
    /\ \E i \in 1..3 : comps_req.resp.records[i] = None
    /\ \E i \in 1..3 : comps_req.resp.records[i] = FloatV(5)

----------------------------------------------------------------------------
(* Score synthesis and the assembled report: claims C16, C17, C18 *)

ScoreRequested == score_input # NoCall

\* C16: the sections handed to generate_overall_score hold the outputs of the
\* sections that succeeded only: no failure marker is among them.
C16_ScoreInputOmitsFailures ==
    ScoreRequested => \A s \in DOMAIN score_input : score_input[s] # "error"

\* The score-synthesis call got no answer that parses.
ScoreCallFailed ==
    /\ gen_log["overall_score"] # <<>>
    /\ ~Parses(gen_log["overall_score"][1].response)

\* C17: when the score-synthesis call fails, generate_overall_score returns
\* the neutral default (5.0, Neutral) and the pipeline still returns the
\* report.
C17_ScoreFailureGivesDefault ==
    ScoreCallFailed =>
        /\ overall = [source |-> "default", score |-> NeutralScore, label |-> "Neutral"]
        /\ result = "report"
        /\ \A s \in SectionNames : sections[s] \in {"payload", "error"}

\* The score call's answer was cut off while four sections had succeeded.
C17_Witness ==
    /\ ScoreCallFailed
    /\ gen_log["overall_score"][1].response = "malformed"
    /\ Cardinality({s \in SectionNames : sections[s] = "payload"}) = 4
    /\ result = "report"

PipelineReturned == pc \in {"returned", "done"} /\ ScoreRequested

\* C18: after generate_analysis_pipeline the report has one entry for each of
\* the five section names, a populated payload when the section's call gave
\* one and a failure marker otherwise, whatever the outcomes and the order in
\* which the five calls completed.
C18_OneEntryPerSection ==
    PipelineReturned =>
        /\ DOMAIN score_input = SectionNames
        /\ \A s \in SectionNames :
               /\ Len(gen_log[s]) = 1
               /\ sections[s] \in {"payload", "error"}
               /\ sections[s] = "payload" <=> gen_log[s][1].response = "ok"

\* A report with payloads, a marker for an answer that was an empty object
\* and a marker for a call that failed.
C18_Witness ==
    /\ PipelineReturned
    /\ gen_log["vehicle_history"][1].response = "empty"
    /\ sections["vehicle_history"] = "error"
    /\ gen_log["dealer_questions"][1].response = "unavailable"
    /\ sections["dealer_questions"] = "error"
    /\ sections["price_analysis"] = "payload"
    /\ sections["owner_feedback"] = "payload"

----------------------------------------------------------------------------
(* Failed safety queries: claim C19 *)

FoundNothing == [ok |-> TRUE, count |-> 0]

\* C19: a failed recalls query leaves recall_count absent, so that the result
\* differs from the one of a query that found zero recalls, and the
\* complaints that were found are still recorded; likewise for a failed
\* complaints query.
C19_FailedQueryLeavesFieldAbsent ==
    NhtsaCalled =>
        /\ ~nhtsa_resp.recalls.ok =>
               /\ nhtsa_result.recall_count \notin Nat
               /\ nhtsa_result # NhtsaData(FoundNothing, nhtsa_resp.complaints)
               /\ nhtsa_resp.complaints.ok =>
                      nhtsa_result.complaint_count = nhtsa_resp.complaints.count
        /\ ~nhtsa_resp.complaints.ok =>
               /\ nhtsa_result.complaint_count \notin Nat
               /\ nhtsa_result # NhtsaData(nhtsa_resp.recalls,
                                           [ok |-> TRUE, count |-> 0, severe |-> 0, severe_late |-> 0])
               /\ nhtsa_resp.recalls.ok =>
                      nhtsa_result.recall_count = nhtsa_resp.recalls.count

----------------------------------------------------------------------------
(* VINs taken from the URL: claim C20 *)

\* The VIN text behind the identity's vin, when a URL stage supplied it.
UrlVinText ==
    IF vehicle.vin = "url" THEN extract_vin_from_url(world.url.text).str
    ELSE parse_listing_url(world.url.text).str

\* C20: a VIN that a URL stage of analyze_listing put into the identity has
\* 17 characters, none of them I, O or Q, a model-year code as its tenth
\* character, and is not made of hexadecimal digits only.
C20_UrlVinValidated ==
    vehicle.vin \in {"url", "url_fallback"} =>
        /\ Len(UrlVinText) = 17
        /\ \A i \in 1..17 : UrlVinText[i] \notin {"I", "O", "Q"}
        /\ UrlVinText[10] \in ValidYearChars
        /\ \E i \in 1..17 : UrlVinText[i] \notin HexChars

----------------------------------------------------------------------------
(* Concurrency of the three engines: claim C21 *)

\* An engine's provider query is in flight from the step that sends it to
\* the step that takes its answer. get_market_comps and get_nhtsa_data are
\* blocking calls made by analyze_listing itself; the research calls are
\* futures of the pipeline's executor.
MarketInFlight == pc = "market"
NhtsaInFlight == pc = "nhtsa" /\ vehicle.year # ""
ResearchInFlight == \E t \in Topics : research[t] = "running"

EnginesInFlight ==
    {e \in {"market", "nhtsa", "research"} :
        \/ e = "market" /\ MarketInFlight
        \/ e = "nhtsa" /\ NhtsaInFlight
        \/ e = "research" /\ ResearchInFlight}

\* C21: the Market Position Engine, the Safety Risk Scorer and the Research
\* Fan-out run concurrently within one run of analyze_listing: none of the
\* three waits for another, so once the identity is resolved and the market
\* query is still unanswered, the safety query and the research calls can
\* already be sent, and the safety query does not hold back the research.
C21_EnginesDoNotWait ==
    /\ (pc = "market" /\ vehicle.year # "") => ENABLED NhtsaStep
    /\ (pc \in {"market", "nhtsa"} /\ ~IdentityCardRaises(vehicle)) => ENABLED StartPipeline

\* The code's behaviour: at most one engine has a query in flight, and the
\* research calls are sent only after both other engines have answered.
C21_EnginesRunInSequence ==
    /\ Cardinality(EnginesInFlight) <= 1
    /\ ResearchInFlight => (market_data # NoCall /\ nhtsa_data # NoCall)

\* The three research calls themselves are in flight together.
C21_ResearchTogether == \A t \in Topics : research[t] = "running"

----------------------------------------------------------------------------
(* Serialized writes of the trace store: claim C22 *)

\* The handler threads between opening the connection and the commit.
Writing == {w \in Writers : wpc[w] \in {"connected", "inserted"}}

\* The statements inside the with block.
InsideLock(w) == wpc[w] \in {"locked", "connected", "inserted", "committed"}

\* C22: under every interleaving of concurrent save_trace, save_reward and
\* save_page_event calls at most one call is between opening its connection
\* and committing, and the lock is released on every path: a thread holds it
\* exactly while it is inside the with block, so not after the insert raised
\* and not after the call returned.
C22_WritesSerialized ==
    /\ Cardinality(Writing) <= 1
    /\ \A w \in Writers : InsideLock(w) <=> db_lock = w

\* A second call waits for the lock while the first is writing, and a call
\* has acquired the lock after another call's insert raised.
C22_Witness ==
    \E w1, w2 \in Writers :
        /\ wreq[w1].route # wreq[w2].route
        /\ \/ wpc[w1] = "inserted" /\ wpc[w2] = "wait_lock"
           \/ wpc[w1] = "raised" /\ wpc[w2] = "inserted"

----------------------------------------------------------------------------
(* One attempt per provider: claim C23 *)

Providers == {"vin_decode", "scrape", "autodev"}

\* C23: during identity resolution each provider is attempted at most once
\* per run: the VIN decode service is called at most once for the run's
\* VIN, also when its first call failed or returned no make, and a provider
\* that failed is not called again.
C23_OneAttemptPerProvider == \A p \in Providers : calls[p] <= 1

\* The code's behaviour: the page scrape and the Auto.dev lookup are made at
\* most once, the VIN decode service up to three times.
C23_DecodeUpToThreeTimes ==
    /\ calls.scrape <= 1
    /\ calls.autodev <= 1
    /\ calls.vin_decode <= 3

\* The URL's VIN is decoded a second time after the first decode gave
\* nothing, and a third time for the specifications.
C23_DecodedThrice ==
    /\ vehicle.vin = "url"
    /\ world.url.decode = NoInfo
    /\ calls.vin_decode = 3

----------------------------------------------------------------------------
(* The price histogram: claims C24 and C29 *)

BucketWidth(b) == b.max - b.min

\* C24: for every non-empty list of valid comp prices the histogram has at
\* least one and at most 15 buckets, all of the same width, which is at
\* least 500, ordered and contiguous, the first starting at the minimum
\* price.
C24_HistogramShape ==
    HasSnapshot =>
        LET buckets == comps_result.price_buckets
            n == Len(buckets)
        IN  /\ n >= 1
            /\ n <= MaxBuckets
            /\ buckets[1].min = comps_result.min_price
            /\ \A i \in 1..n :
                   /\ BucketWidth(buckets[i]) = BucketWidth(buckets[1])
                   /\ BucketWidth(buckets[i]) >= MinBucketSize
            /\ \A i \in 1..(n - 1) : buckets[i + 1].min = buckets[i].max

\* Twenty comps whose range is no multiple of the width give twelve buckets,
\* the most that the loop builds.
C24_Witness ==
    /\ HasSnapshot
    /\ Len(comps_result.price_buckets) = 12
    /\ BucketWidth(comps_result.price_buckets[1]) > MinBucketSize

BucketsHolding(p) ==
    {i \in 1..Len(comps_result.price_buckets) :
        /\ comps_result.price_buckets[i].min <= p
        /\ p < comps_result.price_buckets[i].max}

RECURSIVE SumCounts(_)
SumCounts(buckets) ==
    IF buckets = <<>> THEN 0 ELSE Head(buckets).count + SumCounts(Tail(buckets))

\* C29: every valid comp price falls in exactly one bucket: the bucket
\* counts sum to comp_count, and the maximum price is counted in the last
\* non-empty bucket, also when all prices are equal.
C29_EveryPriceInOneBucket ==
    HasSnapshot =>
        LET buckets == comps_result.price_buckets
            prices == comps_result.prices_sample
            nonempty == {i \in 1..Len(buckets) : buckets[i].count > 0}
        IN  /\ \A k \in 1..Len(prices) : Cardinality(BucketsHolding(prices[k])) = 1
            /\ SumCounts(buckets) = comps_result.comp_count
            /\ \A i \in 1..Len(buckets) :
                   buckets[i].count =
                       Cardinality({k \in 1..Len(prices) : i \in BucketsHolding(prices[k])})
            /\ nonempty # {}
            /\ \A i \in nonempty :
                   (\A j \in nonempty : j <= i) => i \in BucketsHolding(comps_result.max_price)

\* Several comps of one price: a single bucket that counts them all.
C29_Witness ==
    /\ HasSnapshot
    /\ comps_result.comp_count >= 2
    /\ comps_result.min_price = comps_result.max_price
    /\ comps_result.price_buckets[1].count = comps_result.comp_count

----------------------------------------------------------------------------
(* The year range of the market query: claim C25 *)

YearRangeSent ==
    /\ comps_params \notin {NoCall, Raised}
    /\ comps_params.year_min # None

\* C25: for every known vehicle year, the year range that get_market_comps
\* sends to the market-listing provider is the window of one year around it
\* and is never empty: year_min = year - 1 and year_max = year + 1, so
\* year_min <= year <= year_max, also for years before 1990.
C25_YearWindowAroundYear ==
    YearRangeSent =>
        LET year == comps_req.year.int
        IN  /\ comps_params.year_min.int <= year
            /\ year <= comps_params.year_max.int
            /\ comps_params.year_min.int = year - 1
            /\ comps_params.year_max.int = year + 1

\* The code's behaviour: the window of one year around the year for every
\* year after 1990; for 1990 and before, the range starts at 1990, and it
\* is empty for 1988 and before.
C25_YearWindowFrom1991 ==
    YearRangeSent =>
        LET year == comps_req.year.int
        IN  /\ comps_params.year_max.int = year + 1
            /\ comps_params.year_min.int = Max2(year - 1, MinYear)
            /\ year > MinYear => comps_params.year_min.int = year - 1
            /\ year < MinYear - 1 => comps_params.year_min.int > comps_params.year_max.int

\* A query for a 1985 car asks for the years 1990 to 1986.
C25_EmptyRange ==
    /\ YearRangeSent
    /\ comps_req.year = IntV(1985)
    /\ comps_params.year_min.int > comps_params.year_max.int

----------------------------------------------------------------------------
(* Start-up of the trace store: claim C26 *)

\* A call of save_trace, save_reward or save_page_event has begun.
StoreCalled == \E w \in Writers : wpc[w] \notin {"idle", "rejected"}

\* C26: the schema initialisation attempted at module load has succeeded
\* before the first save_trace, save_reward or save_page_event runs: also on
\* a fresh database the tables exist once the module is loaded, so that the
\* first write does not fail for a missing table.
C26_SchemaReadyBeforeFirstWrite ==
    /\ Loaded => db_tables
    /\ StoreCalled => db_tables

\* The code's behaviour: nothing creates the tables, because the only call
\* of init_trace_db runs before the name is bound.
C26_TablesNeverCreated == [][db_tables' = db_tables]_vars

\* On a fresh database a write has failed for the missing table.
C26_FirstWriteFails ==
    /\ ~db_tables
    /\ \E w \in Writers : wpc[w] = "raised"

----------------------------------------------------------------------------
(* Referential integrity of the trace store: claim C28 *)

StoredTraceIds == {traces[i].id : i \in 1..Len(traces)}

\* C28: every stored reward row and every stored page-event row carries a
\* trace_id for which a trace row exists; a reward or an event for an
\* unknown trace id is not stored.
C28_SignalsReferToTraces ==
    /\ \A i \in 1..Len(rewards) : rewards[i].trace_id \in StoredTraceIds
    /\ \A i \in 1..Len(page_events) : page_events[i].trace_id \in StoredTraceIds

\* The code's behaviour: a valid request's row is stored with the trace_id
\* as sent, whatever the traces table holds.
C28_StoredAsSent ==
    \A w \in Writers :
        (wpc[w] \in {"committed", "done"} /\ wreq[w].route # "analyze") =>
            LET table == IF wreq[w].route = "reward" THEN rewards ELSE page_events
            IN  \E i \in 1..Len(table) : table[i].trace_id = wreq[w].trace_id.int

\* A reward for a trace id that save_trace never gave out is in the table
\* next to a stored trace.
C28_OrphanReward ==
    /\ Len(traces) = 1
    /\ \E i \in 1..Len(rewards) : rewards[i].trace_id = UnknownTraceId

----------------------------------------------------------------------------
(* Order of the complaints: claim C27 *)

\* The answers that hold the same complaints as c in another order: the
\* same number of complaints, and the same number of them with a severe
\* keyword, spread differently over the first ComplaintWindow and the rest.
Reordered(c) ==
    {[c EXCEPT !.severe = a, !.severe_late = c.severe + c.severe_late - a] :
        a \in {k \in 0..(c.severe + c.severe_late) :
                  /\ k <= Min2(c.count, ComplaintWindow)
                  /\ c.severe + c.severe_late - k <= Max2(0, c.count - ComplaintWindow)}}

SameRisk(c) ==
    LET other == NhtsaData(nhtsa_resp.recalls, c)
    IN  /\ other.risk_score = nhtsa_result.risk_score
        /\ other.risk_label = nhtsa_result.risk_label

\* C27: risk_score depends only on the recall count, the complaint count
\* and the set of complaints, not on their order: two complaint lists that
\* are permutations of each other give the same risk_score and label, also
\* with more than 20 complaints.
C27_RiskScoreOrderFree ==
    NhtsaCalled => \A c \in Reordered(nhtsa_resp.complaints) : SameRisk(c)

\* The code's behaviour: the order is without effect for up to 20
\* complaints; beyond that the score changes exactly with the number of
\* severe complaints among the first 20.
C27_OrderFreeWithinWindow ==
    NhtsaCalled =>
        \A c \in Reordered(nhtsa_resp.complaints) :
            (c.count <= ComplaintWindow \/ c.severe = nhtsa_resp.complaints.severe)
                => SameRisk(c)

\* Twenty-one complaints, the one severe complaint last: moved to the front
\* it raises the score.
C27_SevereComplaintLast ==
    /\ NhtsaCalled
    /\ nhtsa_resp.complaints.count = 21
    /\ nhtsa_resp.complaints.severe = 0
    /\ nhtsa_resp.complaints.severe_late = 1
    /\ \E c \in Reordered(nhtsa_resp.complaints) : ~SameRisk(c)

----------------------------------------------------------------------------
(* Types of the resolved price: claim C30 *)

\* The statements after "Normalize types".
Normalized ==
    pc \in {"vin_specs", "market", "nhtsa", "pipeline", "research", "sections"}

PositiveInteger(val) == IsInt(val) /\ val.int > 0

\* C30: in every run of analyze_listing that passes identity resolution the
\* price of the vehicle identity is absent or a strictly positive integer
\* once the types are normalised, for every caller-supplied value, also a
\* text that is no amount such as "call"; and such a value does not make the
\* run end with an exception instead of a report. (parse_mileage is applied
\* to the mileage by the same statement form.)
C30_PriceAbsentOrPositive ==
    /\ Normalized => (vehicle.price = None \/ PositiveInteger(vehicle.price))
    /\ result # "raised"

\* The code's behaviour: a caller's price that parse_price rejects stays in
\* the identity as the text it was, and the identity card then raises.
C30_TextPriceKept ==
    (Normalized /\ req.input.price = StrV(<<"c", "a", "l", "l">>))
        => vehicle.price = req.input.price

\* The run of a caller who names the car and the price "call" has ended
\* with an exception.
C30_RunRaised ==
    /\ result = "raised"
    /\ vehicle.price = StrV(<<"c", "a", "l", "l">>)

====
